---------------------------- MODULE Spec2Model ----------------------------
(***************************************************************************)
(* A model of the thumbnailer's slope-optimised rate control               *)
(* (src/src/thumbnailer_slope_optim.cc) and of the PSNR comparison         *)
(* utilities (src/src/thumbnailer_utils.cc).                               *)
(*                                                                         *)
(* Two state machines share the module:                                    *)
(*   Spec      GenerateAnimationSlopeOptim: LossyEncodeSlopeOptim,         *)
(*             NearLosslessEqual, the LossyEncodeNoSlopeOptim scans and    *)
(*             ExtraLossyEncode, one action per loop iteration.            *)
(*   SpecUtils CompareThumbnail and its two AnimData2PSNR calls.           *)
(*                                                                         *)
(* PSNR values are integers in tenths of a dB; a slope is kept as the      *)
(* exact fraction n/d (float rounding is not modelled), with d = 0 for the *)
(* IEEE results of a division by zero (n > 0: +inf, n < 0: -inf, n = 0:    *)
(* NaN).                                                                   *)
(***************************************************************************)
EXTENDS Integers, Sequences, FiniteSets, TLC

VARIABLES
    \* ---- Thumbnailer (thumbnailer.h, thumbnailer_slope_optim.cc) ----
    frames_,                 \* std::vector<FrameData>
    byte_budget_,
    minimum_lossy_quality_,
    webp_data,               \* the caller's output buffer: size and what it encodes
    trial,                   \* the last output of GenerateAnimationNoBudget
    pc,                      \* position in GenerateAnimationSlopeOptim
    status,                  \* status returned by the last pass that returned
    limit_slope,             \* LossyEncodeSlopeOptim locals
    slopes,                  \* FindMedianSlope: the slope recorded for each frame
    min_quality,
    max_quality,
    optim_list,
    new_optim_list,
    iter,                    \* GenerateAnimationSlopeOptim locals
    curr_anim_size,
    calls,                   \* the passes the refinement driver called, each with the
                             \* buffer size it was called with
    anim_size,               \* LossyEncodeNoSlopeOptim locals
    curr_ind,
    scan_start,              \* frames_ and webp_data as the running scan found them
    accepted,                \* the candidates the running scan accepted, in order
    encoding_order,          \* ExtraLossyEncode locals
    extra_start,             \* frames_ as ExtraLossyEncode found them
    rounds,                  \* rounds of ExtraLossyEncode completed
    \* ---- thumbnailer_utils.cc ----
    original_frames,         \* the ground truth handed to CompareThumbnail
    buffers,                 \* <<webp_data_1, webp_data_2>>, each by its decoded frames
    upc,                     \* position in CompareThumbnail / AnimData2PSNR
    call,                    \* which AnimData2PSNR call is running (1 or 2)
    frame_i,                 \* AnimData2PSNR locals
    new_frame_index,
    compared,                \* the decoded index each original frame was compared with
    stats,                   \* <<stats_1, stats_2>>
    diff,                    \* ThumbnailDiffPSNR
    ustatus                  \* the UtilsStatus returned

tvars == <<frames_, byte_budget_, minimum_lossy_quality_, webp_data, trial, pc,
           status, limit_slope, slopes, min_quality, max_quality, optim_list,
           new_optim_list, iter, curr_anim_size, calls, anim_size, curr_ind,
           scan_start, accepted, encoding_order, extra_start, rounds>>

uvars == <<original_frames, buffers, upc, call, frame_i, new_frame_index,
           compared, stats, diff, ustatus>>

vars == <<tvars, uvars>>

--------------------------------------------------------------------------
(* Bounds of the model *)

MaxFrames == 2          \* frames added to the Thumbnailer
MaxOriginal == 3        \* original frames handed to CompareThumbnail

(* Program constants *)

MaxQuality == 100       \* upper end of every quality search
OneDb == 10             \* the 1.0 dB threshold of FindMedianSlope, in 0.1 dB
LosslessStart == 70     \* where a lossless frame's refinement search starts
QualityWindow == 30     \* width of the refinement and top-up search windows
KMaxIter == 5           \* refinement scans at most

Min(a, b) == IF a < b THEN a ELSE b
Max(a, b) == IF a > b THEN a ELSE b

RECURSIVE SumSeq(_)
SumSeq(s) == IF s = <<>> THEN 0 ELSE Head(s) + SumSeq(Tail(s))

\* C++ integer division truncates towards zero.
CppDiv(a, b) == IF a >= 0 THEN a \div b ELSE -((-a) \div b)

--------------------------------------------------------------------------
(* The codec.  A picture is described by its rate-distortion curve: the   *)
(* size and PSNR at quality 0 and the steps by which they grow at given    *)
(* qualities (both non-decreasing in the quality: the codec contract the   *)
(* searches rely on), plus the size and PSNR of its near-lossless          *)
(* encoding, and the bytes the container spends on the frame on top of     *)
(* the size GetPictureStats measures, from a given quality on: the         *)
(* assembled animation is not the sum of the frames' measured sizes.       *)

Every10(ds, dp) == [k \in 1..10 |-> [at |-> 10 * k, ds |-> ds, dp |-> dp]]

Pictures ==
    { \* steep: each 10 quality steps cost 2 bytes and gain 0.5 dB
      [s0 |-> 10, p0 |-> 300, steps |-> Every10(2, 5), nls |-> 24, nlp |-> 340,
       mux |-> [at |-> MaxQuality + 1, ds |-> 0]],
      \* very steep: 4 bytes and 2 dB per 10 quality steps
      [s0 |-> 8, p0 |-> 250, steps |-> Every10(4, 20), nls |-> 40, nlp |-> 420,
       mux |-> [at |-> MaxQuality + 1, ds |-> 0]],
      \* flat PSNR, size growing by one byte each 10 quality steps but at 60
      [s0 |-> 10, p0 |-> 350,
       steps |-> [k \in 1..10 |-> [at |-> 10 * k, ds |-> IF k = 6 THEN 0 ELSE 1, dp |-> 0]],
       nls |-> 15, nlp |-> 350,
       mux |-> [at |-> MaxQuality + 1, ds |-> 0]],
      \* flat size up to quality 89, PSNR growing
      [s0 |-> 12, p0 |-> 320,
       steps |-> [k \in 1..10 |-> [at |-> 10 * k, ds |-> IF k = 9 THEN 6 ELSE 0, dp |-> 3]],
       nls |-> 12, nlp |-> 350,
       mux |-> [at |-> 95, ds |-> 1]],
      \* one byte more from quality 78, two bytes and 0.5 dB more from 85
      [s0 |-> 17, p0 |-> 320,
       steps |-> <<[at |-> 78, ds |-> 1, dp |-> 0], [at |-> 85, ds |-> 2, dp |-> 5]>>,
       nls |-> 18, nlp |-> 320,
       mux |-> [at |-> MaxQuality + 1, ds |-> 0]] }

LossySize(pic, q) ==
    pic.s0 + SumSeq([k \in 1..Len(pic.steps) |->
                        IF pic.steps[k].at <= q THEN pic.steps[k].ds ELSE 0])
LossyPsnr(pic, q) ==
    pic.p0 + SumSeq([k \in 1..Len(pic.steps) |->
                        IF pic.steps[k].at <= q THEN pic.steps[k].dp ELSE 0])

\* GetPictureStats(ind, &size, &psnr) for a quality in 0..100: the encoded
\* size and the PSNR of frame fr at its current config.
GetPictureStats(fr) ==
    IF fr.lossless
    THEN [size |-> fr.pic.nls, psnr |-> fr.pic.nlp]
    ELSE [size |-> LossySize(fr.pic, fr.quality),
          psnr |-> LossyPsnr(fr.pic, fr.quality)]

\* What a lookup at a quality outside 0..100 (lossy_data[-1]) can give: the
\* call fails, or it returns whatever lies before the table.
GarbageStats == { [fail |-> FALSE, size |-> 0, psnr |-> 0],
                  [fail |-> FALSE, size |-> 7, psnr |-> 990] }
LookupFails == [fail |-> TRUE, size |-> 0, psnr |-> 0]

\* What the container adds to the measured size of the frame at its config.
MuxCost(fr) ==
    IF ~fr.lossless /\ fr.quality >= fr.pic.mux.at THEN fr.pic.mux.ds ELSE 0

\* The bytes the frame takes in the assembled animation.
FrameBytes(fr) == GetPictureStats(fr).size + MuxCost(fr)

\* GenerateAnimationNoBudget: every frame encoded at its current config, in
\* order; the buffer is described by its size and by the config of each frame.
GenerateAnimationNoBudget(frames) ==
    [size |-> SumSeq([i \in 1..Len(frames) |-> FrameBytes(frames[i])]),
     enc  |-> [i \in 1..Len(frames) |->
                  [quality |-> frames[i].quality, lossless |-> frames[i].lossless]]]

EmptyData == [size |-> 0, enc |-> <<>>]

\* GetAnimationSize(webp_data)
GetAnimationSize(data) == data.size

--------------------------------------------------------------------------
(* Slopes *)

MkSlope(dpsnr, dsize) ==
    IF dsize < 0 THEN [n |-> -dpsnr, d |-> -dsize] ELSE [n |-> dpsnr, d |-> dsize]

ZeroSlope == [n |-> 0, d |-> 1]
IsNaN(a) == a.d = 0 /\ a.n = 0
Rank(a) == IF a.d # 0 THEN 0 ELSE IF a.n > 0 THEN 1 ELSE -1

\* a < b on floats: false as soon as one side is NaN.
SlopeLess(a, b) ==
    /\ ~IsNaN(a)
    /\ ~IsNaN(b)
    /\ IF a.d = 0 \/ b.d = 0 THEN Rank(a) < Rank(b) ELSE a.n * b.d < b.n * a.d

\* ComputeSlope(ind, low_quality, high_quality, &slope): the slope; the frame's
\* config.quality is left at high_quality.
ComputeSlope(fr, low_quality, high_quality) ==
    LET low  == GetPictureStats([fr EXCEPT !.quality = low_quality])
        high == GetPictureStats([fr EXCEPT !.quality = high_quality])
    IN  IF high.size = low.size
        THEN ZeroSlope
        ELSE MkSlope(high.psnr - low.psnr, high.size - low.size)

\* The binary search with its two branches swapped: it narrows upward where
\* the threshold is met and downward where it is not.
RECURSIVE MedianSearchSwapped(_, _, _, _)
MedianSearchSwapped(fr, lo, hi, acc) ==
    IF lo > hi THEN acc
    ELSE LET mid == (lo + hi) \div 2
             s100 == GetPictureStats([fr EXCEPT !.quality = MaxQuality])
             new == GetPictureStats([fr EXCEPT !.quality = mid])
         IN  IF s100.psnr - new.psnr <= OneDb
             THEN MedianSearchSwapped(fr, mid + 1, hi,
                      [slope |-> MkSlope(s100.psnr - new.psnr, s100.size - new.size),
                       last |-> mid])
             ELSE MedianSearchSwapped(fr, lo, mid - 1, [acc EXCEPT !.last = mid])

\* The binary search of FindMedianSlope on one frame: the slope recorded last
\* and the quality probed last.
RECURSIVE MedianSearch(_, _, _, _)
MedianSearch(fr, lo, hi, acc) ==
    IF lo > hi THEN acc
    ELSE LET mid == (lo + hi) \div 2
             s100 == GetPictureStats([fr EXCEPT !.quality = MaxQuality])
             new == GetPictureStats([fr EXCEPT !.quality = mid])
         IN  IF s100.psnr - new.psnr <= OneDb
             THEN MedianSearch(fr, lo, mid - 1,
                      [slope |-> MkSlope(s100.psnr - new.psnr, s100.size - new.size),
                       last |-> mid])
             ELSE MedianSearch(fr, mid + 1, hi, [acc EXCEPT !.last = mid])

PicFinalSlope(fr) ==
    MedianSearch(fr, 0, MaxQuality, [slope |-> [n |-> 0, d |-> 0], last |-> MaxQuality])

\* std::sort(slopes); slopes[slopes.size() / 2].  With a NaN among the slopes
\* operator< is no strict weak ordering and the order std::sort leaves is
\* unspecified: any of the slopes may end up in the middle.
MedianSlopes(vec) ==
    LET n == Len(vec)
        k == n \div 2
        below(v) == Cardinality({i \in 1..n : SlopeLess(vec[i], v)})
        notAbove(v) == Cardinality({i \in 1..n : ~SlopeLess(v, vec[i])})
    IN  IF \E i \in 1..n : IsNaN(vec[i])
        THEN {vec[i] : i \in 1..n}
        ELSE {vec[CHOOSE j \in 1..n : below(vec[j]) <= k /\ notAbove(vec[j]) > k]}

--------------------------------------------------------------------------
(* The Thumbnailer's initial states: 1..MaxFrames frames added in any order *)
(* (distinct timestamps), nothing encoded yet, an empty output buffer.      *)

Budgets == {9, 38, 45, 52, 200}
MinQualities == {0, 80}

NewFrame(pic, ts) ==
    [pic |-> pic, timestamp_ms |-> ts, quality |-> 75, lossless |-> FALSE,
     encoded_size |-> 0, final_quality |-> -1, final_psnr |-> 0,
     near_lossless |-> FALSE]

Range(s) == {s[i] : i \in 1..Len(s)}
Iota(n) == [i \in 1..n |-> i]

UtilsIdle ==
    /\ original_frames = <<>>
    /\ buffers = <<>>
    /\ upc = "idle"
    /\ call = 0
    /\ frame_i = 0
    /\ new_frame_index = 0
    /\ compared = <<>>
    /\ stats = <<>>
    /\ diff = <<>>
    /\ ustatus = "none"

Init ==
    /\ \E n \in 1..MaxFrames :
         \E pics \in [1..n -> Pictures] :
           \E ts \in {f \in [1..n -> 1..n] : \A i, j \in 1..n : f[i] = f[j] => i = j} :
             frames_ = [i \in 1..n |-> NewFrame(pics[i], ts[i])]
    /\ byte_budget_ \in Budgets
    /\ minimum_lossy_quality_ \in MinQualities
    /\ webp_data = EmptyData
    /\ trial = EmptyData
    /\ pc = "start"
    /\ status = "none"
    /\ limit_slope = ZeroSlope
    /\ slopes = <<>>
    /\ min_quality = 0
    /\ max_quality = 0
    /\ optim_list = <<>>
    /\ new_optim_list = <<>>
    /\ iter = 0
    /\ curr_anim_size = 0
    /\ anim_size = 0
    /\ curr_ind = 0
    /\ scan_start = <<>>
    /\ accepted = <<>>
    /\ calls = <<>>
    /\ encoding_order = <<>>
    /\ extra_start = <<>>
    /\ rounds = 0
    /\ UtilsIdle

--------------------------------------------------------------------------
(* LossyEncodeSlopeOptim *)

\* std::sort by timestamp_ms (the timestamps are distinct).
SortByTimestamp(frames) ==
    [i \in 1..Len(frames) |->
        CHOOSE fr \in Range(frames) :
            Cardinality({g \in Range(frames) : g.timestamp_ms < fr.timestamp_ms}) = i - 1]

\* The budget test left out: every assembly is taken to fit.
FitsAlways(size, budget) == TRUE

\* new_webp_data.size <= byte_budget_
Fits(size, budget) == size <= budget

\* The slope test with >= for >: a frame at limit_slope stays active.
StaysActiveAtLimit(fr, curr_slope, limit) ==
    fr.final_quality = -1 \/ ~SlopeLess(curr_slope, limit)

\* final_quality == -1 || curr_slope > limit_slope
StaysActive(fr, curr_slope, limit) ==
    fr.final_quality = -1 \/ SlopeLess(limit, curr_slope)

InList(list, i) == \E k \in 1..Len(list) : list[k] = i

\* The for loop over optim_list of one iteration: the frames as ComputeSlope
\* and the push to mid_quality leave them, and new_optim_list.
ProbeActive(frames, list, lo, hi, limit) ==
    LET mid == (lo + hi) \div 2
        keep(i) == StaysActive(frames[i], ComputeSlope(frames[i], lo, hi), limit)
    IN  [frames |-> [i \in 1..Len(frames) |->
                        IF InList(list, i)
                        THEN [frames[i] EXCEPT !.quality = IF keep(i) THEN mid ELSE hi]
                        ELSE frames[i]],
         list |-> SelectSeq(list, keep)]

\* Lines 120-140: sort, FindMedianSlope, the search bounds, optim_list.
SlopeOptimBegin ==
    /\ pc = "start"
    /\ LET sorted == SortByTimestamp(frames_)
           found == [i \in 1..Len(sorted) |-> PicFinalSlope(sorted[i])]
       IN  /\ slopes' = [i \in 1..Len(sorted) |-> found[i].slope]
           /\ limit_slope' \in MedianSlopes(slopes')
           /\ frames_' = [i \in 1..Len(sorted) |->
                             [sorted[i] EXCEPT !.quality = found[i].last]]
    /\ min_quality' = minimum_lossy_quality_
    /\ max_quality' = MaxQuality
    /\ optim_list' = Iota(Len(frames_))
    /\ new_optim_list' = <<>>
    /\ pc' = "slope_loop"
    /\ UNCHANGED <<byte_budget_, minimum_lossy_quality_, webp_data, trial, status,
                   iter, curr_anim_size, anim_size, curr_ind, scan_start, accepted, calls,
                   encoding_order, extra_start, rounds, uvars>>

\* One iteration of the while loop, lines 145-178.
SlopeOptimIter ==
    /\ pc = "slope_loop"
    /\ min_quality <= max_quality
    /\ optim_list # <<>>
    /\ LET mid == (min_quality + max_quality) \div 2
           probed == ProbeActive(frames_, optim_list, min_quality, max_quality,
                                 limit_slope)
           data == GenerateAnimationNoBudget(probed.frames)
       IN  /\ new_optim_list' = probed.list
           /\ IF probed.list = <<>>
              THEN \* break
                   /\ frames_' = probed.frames
                   /\ pc' = "slope_end"
                   /\ UNCHANGED <<trial, webp_data, min_quality, max_quality, optim_list>>
              ELSE /\ trial' = data
                   /\ optim_list' = probed.list
                   /\ pc' = "slope_loop"
                   /\ IF Fits(data.size, byte_budget_)
                      THEN /\ frames_' = [i \in 1..Len(frames_) |->
                                  IF InList(probed.list, i)
                                  THEN [probed.frames[i] EXCEPT !.final_quality = mid]
                                  ELSE probed.frames[i]]
                           /\ webp_data' = data
                           /\ min_quality' = mid + 1
                           /\ UNCHANGED max_quality
                      ELSE /\ frames_' = probed.frames
                           /\ max_quality' = mid - 1
                           /\ UNCHANGED <<webp_data, min_quality>>
    /\ UNCHANGED <<byte_budget_, minimum_lossy_quality_, status, limit_slope, slopes,
                   iter, curr_anim_size, anim_size, curr_ind, scan_start, accepted, calls,
                   encoding_order, extra_start, rounds, uvars>>

\* The while condition of line 145 fails.
SlopeOptimExit ==
    /\ pc = "slope_loop"
    /\ ~(min_quality <= max_quality /\ optim_list # <<>>)
    /\ pc' = "slope_end"
    /\ UNCHANGED <<frames_, byte_budget_, minimum_lossy_quality_, webp_data, trial,
                   status, limit_slope, slopes, min_quality, max_quality, optim_list,
                   new_optim_list, iter, curr_anim_size, anim_size, curr_ind,
                   scan_start, accepted, calls, encoding_order, extra_start, rounds, uvars>>

ValidQuality(q) == q \in 0..MaxQuality

\* Lines 180-190: every frame's config.quality is set to its final_quality and
\* its stats are looked up.  A frame still at -1 makes the lookup read
\* lossy_data[-1]: the call fails (the pass returns its error with the frames
\* before it updated) or returns garbage.
\* outcome: what a lookup out of range does.
FinalStats(frames, outcome) ==
    LET bad == {i \in 1..Len(frames) : ~ValidQuality(frames[i].final_quality)}
        stop == IF bad = {} \/ ~outcome.fail THEN Len(frames) + 1
                ELSE CHOOSE i \in bad : \A j \in bad : i <= j
        at(i) == [frames[i] EXCEPT !.quality = frames[i].final_quality]
    IN  [i \in 1..Len(frames) |->
            IF i > stop THEN frames[i]
            ELSE IF i = stop THEN at(i)
            ELSE IF i \in bad
                 THEN [at(i) EXCEPT !.encoded_size = outcome.size,
                                    !.final_psnr = outcome.psnr]
                 ELSE [at(i) EXCEPT !.encoded_size = GetPictureStats(at(i)).size,
                                    !.final_psnr = GetPictureStats(at(i)).psnr]]

\* (webp_data->size > 0) ? kOk : kByteBudgetError
SizeStatus(data) == IF data.size > 0 THEN "kOk" ELSE "kByteBudgetError"

SlopeOptimEnd ==
    /\ pc = "slope_end"
    /\ \E outcome \in IF \A i \in 1..Len(frames_) : ValidQuality(frames_[i].final_quality)
                      THEN {[fail |-> FALSE, size |-> 0, psnr |-> 0]}
                      ELSE {LookupFails} \cup GarbageStats :
         /\ frames_' = FinalStats(frames_, outcome)
         /\ status' = IF outcome.fail THEN "kStatsError" ELSE SizeStatus(webp_data)
    /\ pc' = IF status' = "kOk" THEN "near_lossless" ELSE "done"
    /\ UNCHANGED <<byte_budget_, minimum_lossy_quality_, webp_data, trial,
                   limit_slope, slopes, min_quality, max_quality, optim_list,
                   new_optim_list, iter, curr_anim_size, anim_size, curr_ind,
                   scan_start, accepted, calls, encoding_order, extra_start, rounds, uvars>>

--------------------------------------------------------------------------
(* NearLosslessEqual and GenerateAnimationEqualQuality *)

\* NearLosslessEqual, by its contract: some of the frames (maybe none) are
\* switched to near-lossless, none to a lower PSNR than its lossy encoding has;
\* the switch is committed only if the animation re-assembled with it fits
\* the budget, else the lossy result is kept.
SwitchNearLossless(frames, chosen) ==
    [i \in 1..Len(frames) |->
        IF i \in chosen
        THEN [frames[i] EXCEPT !.lossless = TRUE, !.near_lossless = TRUE,
                               !.encoded_size = frames[i].pic.nls,
                               !.final_psnr = frames[i].pic.nlp]
        ELSE frames[i]]

NearLosslessEqual ==
    /\ pc = "near_lossless"
    /\ \E chosen \in SUBSET (1..Len(frames_)) :
         LET switched == SwitchNearLossless(frames_, chosen)
             data == GenerateAnimationNoBudget(switched)
         IN  /\ \A i \in chosen : frames_[i].pic.nlp >= frames_[i].final_psnr
             /\ chosen # {} => data.size <= byte_budget_
             /\ frames_' = switched
             /\ webp_data' = IF chosen = {} THEN webp_data ELSE data
             /\ trial' = IF chosen = {} THEN trial ELSE data
    /\ status' = "kOk"
    /\ pc' = "count_near_ll"
    /\ UNCHANGED <<byte_budget_, minimum_lossy_quality_, limit_slope, slopes, min_quality,
                   max_quality, optim_list, new_optim_list, iter, curr_anim_size,
                   anim_size, curr_ind, scan_start, accepted, calls, encoding_order, extra_start,
                   rounds, uvars>>

\* GenerateAnimationEqualQuality: the best single quality at which the whole
\* animation fits the budget, for every frame.
EqualQualityFrames(frames, q) ==
    [i \in 1..Len(frames) |->
        LET at == [frames[i] EXCEPT !.quality = q, !.lossless = FALSE]
        IN  [at EXCEPT !.final_quality = q,
                       !.encoded_size = GetPictureStats(at).size,
                       !.final_psnr = GetPictureStats(at).psnr]]

GenerateAnimationEqualQuality(frames, budget, floor) ==
    LET fitting == {q \in floor..MaxQuality :
                      GenerateAnimationNoBudget(EqualQualityFrames(frames, q)).size <= budget}
    IN  IF fitting = {} THEN [ok |-> FALSE, frames |-> frames]
        ELSE [ok |-> TRUE,
              frames |-> EqualQualityFrames(frames,
                            CHOOSE q \in fitting : \A r \in fitting : r <= q)]

\* Lines 30-43 of GenerateAnimationSlopeOptim.
CountNearLossless ==
    /\ pc = "count_near_ll"
    /\ IF \A i \in 1..Len(frames_) : ~frames_[i].near_lossless
       THEN LET eq == GenerateAnimationEqualQuality(frames_, byte_budget_,
                                                    minimum_lossy_quality_)
            IN  /\ frames_' = eq.frames
                /\ webp_data' = IF eq.ok THEN GenerateAnimationNoBudget(eq.frames)
                                ELSE webp_data
                /\ trial' = IF eq.ok THEN GenerateAnimationNoBudget(eq.frames) ELSE trial
                /\ status' = IF eq.ok THEN "kOk" ELSE "kByteBudgetError"
                /\ pc' = "done"
                /\ UNCHANGED <<curr_anim_size, iter>>
       ELSE /\ curr_anim_size' = webp_data.size
            /\ iter' = 0
            /\ pc' = "scan_begin"
            /\ UNCHANGED <<frames_, webp_data, trial, status>>
    /\ UNCHANGED <<byte_budget_, minimum_lossy_quality_, limit_slope, slopes, min_quality,
                   max_quality, optim_list, new_optim_list, anim_size, curr_ind,
                   scan_start, accepted, calls, encoding_order, extra_start, rounds, uvars>>

--------------------------------------------------------------------------
(* LossyEncodeNoSlopeOptim *)

\* new_psnr > final_psnr || (new_psnr == final_psnr && new_size <= encoded_size)
Improves(new, fr) ==
    \/ new.psnr > fr.final_psnr
    \/ (new.psnr = fr.final_psnr /\ new.size <= fr.encoded_size)

\* The whole remaining budget offered to one frame, not its share.
ExtraBudgetWhole(budget, asize, remaining) == budget - asize

\* (byte_budget_ - anim_size) / num_remaining_frames
ExtraBudget(budget, asize, remaining) == CppDiv(budget - asize, remaining)

\* Lines 207-210: where the search of a frame starts.
RefineStart(fr) == IF ~fr.lossless THEN fr.final_quality ELSE LosslessStart

\* An accepted candidate of the test of lines 220-224, with the values the
\* test read.
Acceptance(fr, mid, new, asize, remaining) ==
    [ts |-> fr.timestamp_ms, quality |-> mid, new_size |-> new.size,
     new_psnr |-> new.psnr, encoded_size |-> fr.encoded_size,
     final_psnr |-> fr.final_psnr, anim_size |-> asize,
     num_remaining_frames |-> remaining]

\* The while loop of lines 213-237 on one frame.
RECURSIVE RefineSearch(_, _, _, _, _, _)
RefineSearch(fr, lo, hi, asize, budget, remaining) ==
    IF lo > hi THEN [fr |-> fr, anim_size |-> asize, accepted |-> <<>>]
    ELSE LET mid == (lo + hi) \div 2
             cand == [fr EXCEPT !.quality = mid]
             new == GetPictureStats(cand)
         IN  IF Improves(new, fr)
             THEN IF new.size - fr.encoded_size <= ExtraBudget(budget, asize, remaining)
                  THEN LET rest == RefineSearch([cand EXCEPT !.encoded_size = new.size,
                                                             !.final_psnr = new.psnr,
                                                             !.final_quality = mid,
                                                             !.near_lossless = FALSE],
                                                mid + 1, hi,
                                                asize - fr.encoded_size + new.size,
                                                budget, remaining)
                       IN  [rest EXCEPT !.accepted =
                               <<Acceptance(fr, mid, new, asize, remaining)>> \o @]
                  ELSE RefineSearch(cand, lo, mid - 1, asize, budget, remaining)
             ELSE RefineSearch(cand, mid + 1, hi, asize, budget, remaining)

\* The body of the for loop of lines 206-241 for one frame.
RefineFrame(fr, asize, budget, remaining) ==
    LET lo == RefineStart(fr)
        hi == Min(lo + QualityWindow, MaxQuality)
    IN  RefineSearch([fr EXCEPT !.lossless = FALSE], lo, hi, asize, budget, remaining)

\* The restore without config.lossless: the frames keep the lossless = 0 the
\* scan gave them.
RestoreQualityOnly(frames) ==
    [i \in 1..Len(frames) |-> [frames[i] EXCEPT !.quality = frames[i].final_quality]]

\* Lines 243-246: every frame's config put back to its final values.
RestoreConfig(frames) ==
    [i \in 1..Len(frames) |->
        [frames[i] EXCEPT !.quality = frames[i].final_quality,
                          !.lossless = frames[i].near_lossless]]

\* Lines 243-267: the re-assembly, committed only if it fits.
ScanFinish(frames, data, budget) ==
    LET restored == RestoreConfig(frames)
        new == GenerateAnimationNoBudget(restored)
    IN  [frames |-> restored,
         trial |-> new,
         data |-> IF Fits(new.size, budget) THEN new ELSE data,
         status |-> IF Fits(new.size, budget) THEN SizeStatus(new) ELSE "kOk"]

\* A call of a pass by GenerateAnimationSlopeOptim (lines 45 and 49) and the
\* size of the buffer handed to it.
Call(pass, data) == [pass |-> pass, size |-> data.size]

\* Lines 195-202.
ScanBegin ==
    /\ pc = "scan_begin"
    /\ anim_size' = GetAnimationSize(webp_data)
    /\ scan_start' = <<frames_, webp_data>>
    /\ accepted' = <<>>
    /\ calls' = Append(calls, Call("LossyEncodeNoSlopeOptim", webp_data))
    /\ IF anim_size' > byte_budget_
       THEN /\ status' = "kOk"
            /\ pc' = "scan_ret"
            /\ UNCHANGED curr_ind
       ELSE /\ curr_ind' = 1
            /\ pc' = "scan_frame"
            /\ UNCHANGED status
    /\ UNCHANGED <<frames_, byte_budget_, minimum_lossy_quality_, webp_data, trial,
                   limit_slope, slopes, min_quality, max_quality, optim_list,
                   new_optim_list, iter, curr_anim_size, encoding_order,
                   extra_start, rounds, uvars>>

\* One frame of the for loop of lines 206-241.
ScanFrame ==
    /\ pc = "scan_frame"
    /\ curr_ind <= Len(frames_)
    /\ LET r == RefineFrame(frames_[curr_ind], anim_size, byte_budget_,
                            Len(frames_) - curr_ind + 1)
       IN  /\ frames_' = [frames_ EXCEPT ![curr_ind] = r.fr]
           /\ anim_size' = r.anim_size
           /\ accepted' = accepted \o r.accepted
    /\ curr_ind' = curr_ind + 1
    /\ UNCHANGED <<byte_budget_, minimum_lossy_quality_, webp_data, trial, pc, status,
                   limit_slope, slopes, min_quality, max_quality, optim_list,
                   new_optim_list, iter, curr_anim_size, calls, scan_start,
                   encoding_order, extra_start, rounds, uvars>>

\* Lines 243-267.
ScanEnd ==
    /\ pc = "scan_frame"
    /\ curr_ind > Len(frames_)
    /\ LET r == ScanFinish(frames_, webp_data, byte_budget_)
       IN  /\ frames_' = r.frames
           /\ trial' = r.trial
           /\ webp_data' = r.data
           /\ status' = r.status
    /\ pc' = "scan_ret"
    /\ UNCHANGED <<byte_budget_, minimum_lossy_quality_, limit_slope, slopes, min_quality,
                   max_quality, optim_list, new_optim_list, iter, curr_anim_size,
                   anim_size, curr_ind, scan_start, accepted, calls, encoding_order, extra_start,
                   rounds, uvars>>

\* A whole scan as a function of the frames and the buffer it starts from.
RECURSIVE RefineFrom(_, _, _, _)
RefineFrom(frames, i, asize, budget) ==
    IF i > Len(frames) THEN frames
    ELSE LET r == RefineFrame(frames[i], asize, budget, Len(frames) - i + 1)
         IN  RefineFrom([frames EXCEPT ![i] = r.fr], i + 1, r.anim_size, budget)

LossyEncodeNoSlopeOptim(frames, data, budget) ==
    IF GetAnimationSize(data) > budget
    THEN [frames |-> frames, trial |-> data, data |-> data, status |-> "kOk"]
    ELSE ScanFinish(RefineFrom(frames, 1, GetAnimationSize(data), budget), data, budget)

\* The break test of line 46 never met.
NeverUnchanged(before, data) == FALSE

\* curr_anim_size == webp_data->size
SizeUnchanged(before, data) == before = data.size

\* Lines 44-48 of GenerateAnimationSlopeOptim, after a scan has returned.
AfterScan ==
    /\ pc = "scan_ret"
    /\ IF status # "kOk"
       THEN /\ pc' = "done"
            /\ UNCHANGED <<iter, curr_anim_size>>
       ELSE IF SizeUnchanged(curr_anim_size, webp_data)
            THEN /\ pc' = "extra_begin"
                 /\ UNCHANGED <<iter, curr_anim_size>>
            ELSE /\ curr_anim_size' = webp_data.size
                 /\ iter' = iter + 1
                 /\ pc' = IF iter + 1 < KMaxIter THEN "scan_begin" ELSE "extra_begin"
    /\ UNCHANGED <<frames_, byte_budget_, minimum_lossy_quality_, webp_data, trial,
                   status, limit_slope, slopes, min_quality, max_quality, optim_list,
                   new_optim_list, anim_size, curr_ind, scan_start, accepted, calls,
                   encoding_order, extra_start, rounds, uvars>>

--------------------------------------------------------------------------
(* ExtraLossyEncode *)

Remaining(order) == {order[k].second : k \in 1..Len(order)}

\* Lines 291-296: the window of one round.
RoundMin(frames, order) ==
    LET nexts == {frames[i].final_quality + 1 : i \in Remaining(order)} \cup {MaxQuality}
    IN  CHOOSE m \in nexts : \A x \in nexts : m <= x

\* The window of a round without its 30 steps: the round stops at its min_quality.
RoundMaxNoWindow(frames, order) == RoundMin(frames, order)

RoundMax(frames, order) == Min(RoundMin(frames, order) + QualityWindow, MaxQuality)

\* The remaining frames' config set to mid_quality, below their final_quality
\* or not.
RaiseToMid(frames, order, mid) ==
    [i \in 1..Len(frames) |->
        IF i \in Remaining(order) THEN [frames[i] EXCEPT !.quality = mid] ELSE frames[i]]

\* Lines 301-305: the remaining frames' config for the trial at mid_quality.
RaiseRemaining(frames, order, mid) ==
    [i \in 1..Len(frames) |->
        IF i \in Remaining(order)
        THEN [frames[i] EXCEPT !.quality = Max(frames[i].final_quality, mid)]
        ELSE frames[i]]

\* The search of a round stopped at its first fitting trial.
RECURSIVE ExtraSearchFirstFit(_, _, _, _, _)
ExtraSearchFirstFit(st, order, lo, hi, budget) ==
    IF lo > hi THEN st
    ELSE LET mid == (lo + hi) \div 2
             probed == RaiseRemaining(st.frames, order, mid)
             new == GenerateAnimationNoBudget(probed)
         IN  IF Fits(new.size, budget)
             THEN [frames |-> probed, data |-> new, trial |-> new, final_quality |-> mid]
             ELSE ExtraSearchFirstFit([st EXCEPT !.frames = probed, !.trial = new],
                                      order, lo, mid - 1, budget)

\* The binary search of lines 299-316.  st: the frames, the buffer, the last
\* trial and final_quality so far.
RECURSIVE ExtraSearch(_, _, _, _, _)
ExtraSearch(st, order, lo, hi, budget) ==
    IF lo > hi THEN st
    ELSE LET mid == (lo + hi) \div 2
             probed == RaiseRemaining(st.frames, order, mid)
             new == GenerateAnimationNoBudget(probed)
         IN  IF Fits(new.size, budget)
             THEN ExtraSearch([frames |-> probed, data |-> new, trial |-> new,
                               final_quality |-> mid],
                              order, mid + 1, hi, budget)
             ELSE ExtraSearch([st EXCEPT !.frames = probed, !.trial = new],
                              order, lo, mid - 1, budget)

\* Lines 318-327: final_quality committed for the remaining frames below it.
CommitRound(frames, order, final) ==
    [i \in 1..Len(frames) |->
        IF i \in Remaining(order) /\ frames[i].final_quality < final
        THEN LET at == [frames[i] EXCEPT !.quality = final, !.final_quality = final]
             IN  [at EXCEPT !.encoded_size = GetPictureStats(at).size,
                            !.final_psnr = GetPictureStats(at).psnr]
        ELSE frames[i]]

\* The last frame of the order erased instead of the first.
EraseLast(order) == SubSeq(order, 1, Len(order) - 1)

\* encoding_order.erase(encoding_order.begin())
EraseFirst(order) == Tail(order)

\* Lines 273-288: the non-near-lossless frames in ascending order of their
\* slope up to quality 100 (std::sort: ties in any order).
EncodingOrders(frames) ==
    LET todo == {i \in 1..Len(frames) : ~frames[i].near_lossless}
        slope(i) == ComputeSlope(frames[i], frames[i].final_quality, MaxQuality)
        perms == {o \in [1..Cardinality(todo) -> todo] :
                     \A k, l \in 1..Cardinality(todo) : o[k] = o[l] => k = l}
    IN  {[k \in 1..Cardinality(todo) |-> [first |-> slope(o[k]), second |-> o[k]]] :
            o \in {o \in perms : \A k, l \in 1..Cardinality(todo) :
                                    k < l => ~SlopeLess(slope(o[l]), slope(o[k]))}}

ExtraBegin ==
    /\ pc = "extra_begin"
    /\ encoding_order' \in EncodingOrders(frames_)
    /\ frames_' = [i \in 1..Len(frames_) |->
                      IF frames_[i].near_lossless THEN frames_[i]
                      ELSE [frames_[i] EXCEPT !.quality = MaxQuality]]
    /\ extra_start' = frames_
    /\ rounds' = 0
    /\ calls' = Append(calls, Call("ExtraLossyEncode", webp_data))
    /\ pc' = "extra_loop"
    /\ UNCHANGED <<byte_budget_, minimum_lossy_quality_, webp_data, trial, status,
                   limit_slope, slopes, min_quality, max_quality, optim_list,
                   new_optim_list, iter, curr_anim_size, anim_size, curr_ind,
                   scan_start, accepted, uvars>>

\* One round of the while loop of lines 290-334.
ExtraRound ==
    /\ pc = "extra_loop"
    /\ encoding_order # <<>>
    /\ LET r == ExtraSearch([frames |-> frames_, data |-> webp_data, trial |-> trial,
                             final_quality |-> -1],
                            encoding_order, RoundMin(frames_, encoding_order),
                            RoundMax(frames_, encoding_order), byte_budget_)
       IN  /\ webp_data' = r.data
           /\ trial' = r.trial
           /\ IF r.final_quality # -1
              THEN /\ frames_' = CommitRound(r.frames, encoding_order, r.final_quality)
                   /\ encoding_order' = EraseFirst(encoding_order)
                   /\ rounds' = rounds + 1
                   /\ pc' = "extra_loop"
              ELSE \* break
                   /\ frames_' = r.frames
                   /\ pc' = "extra_end"
                   /\ UNCHANGED <<encoding_order, rounds>>
    /\ UNCHANGED <<byte_budget_, minimum_lossy_quality_, status, limit_slope, slopes,
                   min_quality, max_quality, optim_list, new_optim_list, iter,
                   curr_anim_size, anim_size, curr_ind, scan_start, accepted, calls, extra_start,
                   uvars>>

\* The while condition of line 290 fails.
ExtraExit ==
    /\ pc = "extra_loop"
    /\ encoding_order = <<>>
    /\ pc' = "extra_end"
    /\ UNCHANGED <<frames_, byte_budget_, minimum_lossy_quality_, webp_data, trial,
                   status, limit_slope, slopes, min_quality, max_quality, optim_list,
                   new_optim_list, iter, curr_anim_size, anim_size, curr_ind,
                   scan_start, accepted, calls, encoding_order, extra_start, rounds, uvars>>

\* Line 343.
ExtraEnd ==
    /\ pc = "extra_end"
    /\ status' = SizeStatus(webp_data)
    /\ pc' = "done"
    /\ UNCHANGED <<frames_, byte_budget_, minimum_lossy_quality_, webp_data, trial,
                   limit_slope, slopes, min_quality, max_quality, optim_list,
                   new_optim_list, iter, curr_anim_size, anim_size, curr_ind,
                   scan_start, accepted, calls, encoding_order, extra_start, rounds, uvars>>

Next ==
    \/ SlopeOptimBegin
    \/ SlopeOptimIter
    \/ SlopeOptimExit
    \/ SlopeOptimEnd
    \/ NearLosslessEqual
    \/ CountNearLossless
    \/ ScanBegin
    \/ ScanFrame
    \/ ScanEnd
    \/ AfterScan
    \/ ExtraBegin
    \/ ExtraRound
    \/ ExtraExit
    \/ ExtraEnd

Spec == Init /\ [][Next]_vars

--------------------------------------------------------------------------
(* thumbnailer_utils.cc: AnimData2PSNR and CompareThumbnail.               *)
(*                                                                         *)
(* A buffer is described by what AnimData2Frames makes of it: the status   *)
(* it returns and the decoded frames (ascending timestamps).  An original  *)
(* frame's picture is named by its timestamp; a decoded picture is good    *)
(* (1) or of other dimensions (0), on which WebPPictureDistortion fails.   *)

Timestamps == 1..MaxOriginal

Ascending(s) == \A k \in 1..Len(s) - 1 : s[k].timestamp < s[k + 1].timestamp

OriginalSequences ==
    {s \in UNION {[1..n -> [timestamp : Timestamps]] : n \in 0..MaxOriginal} :
        Ascending(s)}

DecodedSequences ==
    {s \in UNION {[1..n -> [timestamp : Timestamps, pic : {0, 1}]] : n \in 0..MaxOriginal} :
        Ascending(s)}

Buffers ==
    {[status |-> "kOk", frames |-> s] : s \in DecodedSequences}
      \cup {[status |-> "kMemoryError", frames |-> <<>>],
            [status |-> "kGenericError", frames |-> <<>>]}

\* AnimData2Frames(webp_data, &new_frames)
AnimData2Frames(buffer) == buffer

\* WebPPictureDistortion(original, decoded, 0, results): whether it succeeds
\* and results[4]
WebPPictureDistortion(original, decoded) ==
    [ok |-> decoded.pic = 1,
     psnr |-> IF original.timestamp = decoded.timestamp THEN 990
              ELSE 300 + 20 * original.timestamp - 10 * decoded.timestamp]

\* What the read of new_frames[new_frame_index] past the end of the vector
\* can lead to: the process dies, the distortion fails, or it succeeds on
\* whatever was read.
OutOfBounds ==
    {[crash |-> TRUE, ok |-> FALSE, psnr |-> 0],
     [crash |-> FALSE, ok |-> FALSE, psnr |-> 0],
     [crash |-> FALSE, ok |-> TRUE, psnr |-> 0],
     [crash |-> FALSE, ok |-> TRUE, psnr |-> 500]}

EmptyStats == [psnr |-> <<>>, min_psnr |-> 0, max_psnr |-> 0,
               mean_psnr |-> [n |-> 0, d |-> 1], median_psnr |-> 0]

EmptyDiff == [psnr_diff |-> <<>>, max_psnr_decrease |-> 0, max_psnr_increase |-> 0,
              mean_psnr_diff |-> [n |-> 0, d |-> 1], median_psnr_diff |-> 0]

\* std::sort of a vector of numbers
RECURSIVE Insert(_, _)
Insert(x, s) ==
    IF s = <<>> THEN <<x>>
    ELSE IF x <= Head(s) THEN <<x>> \o s ELSE <<Head(s)>> \o Insert(x, Tail(s))

RECURSIVE SortAscending(_)
SortAscending(s) == IF s = <<>> THEN <<>> ELSE Insert(Head(s), SortAscending(Tail(s)))

\* The decoded index advanced whenever a next decoded frame exists.
AdvanceAlways(index, new_frames, original_frame) ==
    IF index + 1 < Len(new_frames) THEN index + 1 ELSE index

\* Lines 76-79: the decoded index after the timestamp test for one original frame.
AdvanceIndex(index, new_frames, original_frame) ==
    IF index + 1 < Len(new_frames)
       /\ new_frames[index + 2].timestamp = original_frame.timestamp
    THEN index + 1
    ELSE index

\* Lines 94-101: the summary of a PSNR list of frame_count values.
RecordStatistics(psnr, frame_count) ==
    LET new_psnr == SortAscending(psnr)
    IN  [psnr |-> psnr,
         min_psnr |-> new_psnr[1],
         max_psnr |-> new_psnr[Len(new_psnr)],
         mean_psnr |-> [n |-> SumSeq(new_psnr), d |-> frame_count],
         median_psnr |-> new_psnr[frame_count \div 2 + 1]]

\* Lines 123-136: the differences and their summary.
RecordDiff(stats_1, stats_2, frame_count) ==
    LET psnr_diff == [i \in 1..frame_count |-> stats_2.psnr[i] - stats_1.psnr[i]]
        copy == SortAscending(psnr_diff)
    IN  [psnr_diff |-> psnr_diff,
         max_psnr_decrease |-> copy[1],
         max_psnr_increase |-> copy[Len(copy)],
         mean_psnr_diff |-> [n |-> SumSeq(copy), d |-> frame_count],
         median_psnr_diff |-> copy[frame_count \div 2 + 1]]

ThumbnailerIdle ==
    /\ frames_ = <<>>
    /\ byte_budget_ = 0
    /\ minimum_lossy_quality_ = 0
    /\ webp_data = EmptyData
    /\ trial = EmptyData
    /\ pc = "idle"
    /\ status = "none"
    /\ limit_slope = ZeroSlope
    /\ slopes = <<>>
    /\ min_quality = 0
    /\ max_quality = 0
    /\ optim_list = <<>>
    /\ new_optim_list = <<>>
    /\ iter = 0
    /\ curr_anim_size = 0
    /\ anim_size = 0
    /\ curr_ind = 0
    /\ scan_start = <<>>
    /\ accepted = <<>>
    /\ calls = <<>>
    /\ encoding_order = <<>>
    /\ extra_start = <<>>
    /\ rounds = 0

InitUtils ==
    /\ ThumbnailerIdle
    /\ original_frames \in OriginalSequences
    /\ buffers \in Buffers \X Buffers
    /\ upc = "compare"
    /\ call = 0
    /\ frame_i = 0
    /\ new_frame_index = 0
    /\ compared = <<>>
    /\ stats = <<EmptyStats, EmptyStats>>
    /\ diff = EmptyDiff
    /\ ustatus = "none"

\* CompareThumbnail, lines 110-118: the empty sequence returns at once, else
\* the first AnimData2PSNR call is made.
CompareBegin ==
    /\ upc = "compare"
    /\ IF original_frames = <<>>
       THEN /\ ustatus' = "kOk"
            /\ upc' = "returned"
            /\ UNCHANGED call
       ELSE /\ call' = 1
            /\ upc' = "decode"
            /\ UNCHANGED ustatus
    /\ UNCHANGED <<original_frames, buffers, frame_i, new_frame_index, compared,
                   stats, diff, tvars>>

\* AnimData2PSNR, lines 63-69.
PSNRDecode ==
    /\ upc = "decode"
    /\ LET decoded == AnimData2Frames(buffers[call])
       IN  IF decoded.status # "kOk"
           THEN /\ ustatus' = decoded.status
                /\ upc' = "returned"
           ELSE /\ upc' = "loop"
                /\ UNCHANGED ustatus
    /\ frame_i' = 0
    /\ new_frame_index' = 0
    /\ compared' = <<>>
    /\ UNCHANGED <<original_frames, buffers, call, stats, diff, tvars>>

\* AnimData2PSNR, one iteration of the loop of lines 70-89.
PSNRStep ==
    /\ upc = "loop"
    /\ frame_i < Len(original_frames)
    /\ LET new_frames == AnimData2Frames(buffers[call]).frames
           original_frame == original_frames[frame_i + 1]
           index == AdvanceIndex(new_frame_index, new_frames, original_frame)
       IN  /\ new_frame_index' = index
           /\ compared' = Append(compared, index)
           /\ \E res \in IF index < Len(new_frames)
                         THEN {[crash |-> FALSE] @@
                               WebPPictureDistortion(original_frame, new_frames[index + 1])}
                         ELSE OutOfBounds :
                IF res.crash
                THEN /\ upc' = "crashed"
                     /\ UNCHANGED <<stats, frame_i>>
                ELSE IF ~res.ok
                THEN \* break
                     /\ upc' = "loop_end"
                     /\ UNCHANGED <<stats, frame_i>>
                ELSE /\ stats' = [stats EXCEPT ![call].psnr = Append(@, res.psnr)]
                     /\ frame_i' = frame_i + 1
                     /\ upc' = "loop"
    /\ UNCHANGED <<original_frames, buffers, call, diff, ustatus, tvars>>

\* The loop condition of line 70 fails.
PSNRLoopExit ==
    /\ upc = "loop"
    /\ frame_i >= Len(original_frames)
    /\ upc' = "loop_end"
    /\ UNCHANGED <<original_frames, buffers, call, frame_i, new_frame_index,
                   compared, stats, diff, ustatus, tvars>>

\* AnimData2PSNR, lines 91-103, and CompareThumbnail's test of the status
\* (lines 119 and 121).
PSNRFinish ==
    /\ upc = "loop_end"
    /\ LET frame_count == Len(original_frames)
       IN  IF Len(stats[call].psnr) # frame_count
           THEN /\ ustatus' = "kGenericError"
                /\ upc' = "returned"
                /\ UNCHANGED <<stats, call>>
           ELSE /\ stats' = [stats EXCEPT
                              ![call] = RecordStatistics(stats[call].psnr, frame_count)]
                /\ IF call = 1
                   THEN /\ call' = 2
                        /\ upc' = "decode"
                   ELSE /\ upc' = "diff"
                        /\ UNCHANGED call
                /\ UNCHANGED ustatus
    /\ UNCHANGED <<original_frames, buffers, frame_i, new_frame_index, compared,
                   diff, tvars>>

\* CompareThumbnail, lines 123-138.
CompareFinish ==
    /\ upc = "diff"
    /\ diff' = RecordDiff(stats[1], stats[2], Len(original_frames))
    /\ ustatus' = "kOk"
    /\ upc' = "returned"
    /\ UNCHANGED <<original_frames, buffers, call, frame_i, new_frame_index,
                   compared, stats, tvars>>

NextUtils ==
    \/ CompareBegin
    \/ PSNRDecode
    \/ PSNRStep
    \/ PSNRLoopExit
    \/ PSNRFinish
    \/ CompareFinish

SpecUtils == InitUtils /\ [][NextUtils]_vars

--------------------------------------------------------------------------
(* Properties of GenerateAnimationSlopeOptim *)

FramesOf(s) == 1..Len(s)

\* The passes of LossyEncodeSlopeOptim, LossyEncodeNoSlopeOptim and
\* ExtraLossyEncode, by the positions their steps start from.
PassPositions == {"slope_loop", "slope_end", "scan_begin", "scan_frame",
                  "extra_begin", "extra_loop", "extra_end"}

\* ExtraLossyEncode has returned.
ExtraReturned == pc = "done" /\ extra_start # <<>>

\* C1: the output buffer, empty at the start, never holds more than
\* byte_budget bytes: no step of any pass replaces it with a larger assembly,
\* so it fits when the three passes have returned kOk.
C1_BufferWithinBudget == webp_data.size <= byte_budget_

\* C1 witness: the three passes have returned kOk with a non-empty buffer,
\* after a scan that changed it and a last trial that was over budget.
C1_Witness ==
    /\ ExtraReturned
    /\ status = "kOk"
    /\ webp_data.size > 0
    /\ iter >= 1
    /\ trial.size > byte_budget_

\* Every frame at minimum_lossy_quality is already over the budget.
FloorOverBudget ==
    SumSeq([i \in FramesOf(frames_) |->
               FrameBytes([frames_[i] EXCEPT !.quality = minimum_lossy_quality_,
                                             !.lossless = FALSE])]) > byte_budget_

\* C2: if the animation with every frame at minimum_lossy_quality is larger
\* than byte_budget, LossyEncodeSlopeOptim commits no trial assembly and
\* returns kByteBudgetError.
C2_FloorOverBudgetReturnsBudgetError ==
    (pc = "done" /\ FloorOverBudget)
        => (webp_data = EmptyData /\ status = "kByteBudgetError")

\* C3: after the three passes have returned kOk, every frame that is not
\* marked near-lossless has final_quality in minimum_lossy_quality..100.
C3_FinalQualityInRange ==
    (ExtraReturned /\ status = "kOk")
        => \A i \in FramesOf(frames_) :
              ~frames_[i].near_lossless
                  => frames_[i].final_quality \in minimum_lossy_quality_..MaxQuality

\* A step of the three passes lowers no final_quality that is set.
NeverLowered ==
    pc \in PassPositions
        => \A i \in FramesOf(frames_) :
              frames_[i].final_quality # -1
                  => frames_'[i].final_quality >= frames_[i].final_quality

\* C4: no step of the three passes assigns a frame whose final_quality is set
\* a smaller final_quality.
C4_FinalQualityNeverLowered == [][NeverLowered]_vars


\* The budget never binds: it holds every frame at its largest encoding.
Generous ==
    SumSeq([i \in FramesOf(frames_) |->
               Max(FrameBytes([frames_[i] EXCEPT !.quality = MaxQuality,
                                                 !.lossless = FALSE]),
                   frames_[i].pic.nls)])
        <= byte_budget_

\* The frames ExtraLossyEncode works on, and whether they all started in
\* minimum_lossy_quality..100.
NotNearLossless == {i \in FramesOf(frames_) : ~frames_[i].near_lossless}

StartedInRange ==
    \A i \in NotNearLossless :
        extra_start[i].final_quality \in minimum_lossy_quality_..MaxQuality

\* The lowest final_quality a frame that is not near-lossless started
\* ExtraLossyEncode with (100 if there is none).
LowestStart ==
    LET starts == {extra_start[i].final_quality : i \in NotNearLossless} \cup {MaxQuality}
    IN  CHOOSE q \in starts : \A r \in starts : q <= r

\* C5, as stated: under a budget that never binds, ExtraLossyEncode returns
\* kOk and every frame that is not near-lossless ends with final_quality 100.
C5_GenerousBudgetAllReach100 ==
    (ExtraReturned /\ Generous /\ StartedInRange)
        => /\ status = "kOk"
           /\ \A i \in NotNearLossless : frames_[i].final_quality = MaxQuality

\* C5, amended: under a budget that never binds, ExtraLossyEncode returns kOk
\* and every frame that is not near-lossless ends with final_quality at least
\* min(q0 + 31, 100), q0 being the lowest final_quality such a frame started
\* with: a round raises the remaining frames to the top of one window of 30
\* above q0 + 1 and retires a frame, so all end at 100 when q0 >= 69.
C5_GenerousBudgetRaisesOneWindow ==
    (ExtraReturned /\ Generous /\ StartedInRange)
        => /\ status = "kOk"
           /\ \A i \in NotNearLossless :
                 /\ frames_[i].final_quality
                        >= Min(LowestStart + 1 + QualityWindow, MaxQuality)
                 /\ frames_[i].final_quality >= extra_start[i].final_quality
           /\ (LowestStart + 1 + QualityWindow >= MaxQuality
                  => \A i \in NotNearLossless : frames_[i].final_quality = MaxQuality)

\* C5 witness: ExtraLossyEncode has returned under a budget that never binds,
\* having raised a frame that started below 69 and ends below 100.
C5_Witness ==
    /\ ExtraReturned
    /\ Generous
    /\ StartedInRange
    /\ rounds >= 1
    /\ \E i \in NotNearLossless :
          /\ extra_start[i].final_quality < MaxQuality - QualityWindow - 1
          /\ frames_[i].final_quality > extra_start[i].final_quality
          /\ frames_[i].final_quality < MaxQuality

\* A scan has run through every frame and returned kOk.
ScanReturned == pc = "scan_ret" /\ status = "kOk" /\ curr_ind > Len(frames_)

\* What a scan records of a frame.
Outcome(fr) == <<fr.final_quality, fr.final_psnr, fr.encoded_size, fr.near_lossless>>

Outcomes(frames) == [i \in FramesOf(frames) |-> Outcome(frames[i])]

\* The scan that would immediately follow.
NextScan == LossyEncodeNoSlopeOptim(frames_, webp_data, byte_budget_)

\* C6, as stated: a scan that ends with the animation size it started with is
\* followed by a scan that leaves the animation size unchanged.
C6_SameSizeThenSameSize ==
    (ScanReturned /\ GetAnimationSize(webp_data) = GetAnimationSize(scan_start[2]))
        => GetAnimationSize(NextScan.data) = GetAnimationSize(webp_data)

\* C6, amended: a scan that ends with the animation size it started with and
\* with every frame's final_quality, final_psnr, encoded_size and near_lossless
\* as they were before it is followed by a scan that leaves the animation size
\* and these four fields of every frame unchanged.
C6_NothingAcceptedThenFixedPoint ==
    (/\ ScanReturned
     /\ GetAnimationSize(webp_data) = GetAnimationSize(scan_start[2])
     /\ Outcomes(frames_) = Outcomes(scan_start[1]))
        => /\ GetAnimationSize(NextScan.data) = GetAnimationSize(webp_data)
           /\ Outcomes(NextScan.frames) = Outcomes(frames_)

\* C6 witness: a scan over a near-lossless frame and room left in the budget
\* has returned with the size and every frame's outcome as before it.
C6_Witness ==
    /\ ScanReturned
    /\ GetAnimationSize(webp_data) = GetAnimationSize(scan_start[2])
    /\ Outcomes(frames_) = Outcomes(scan_start[1])
    /\ \E i \in FramesOf(frames_) : frames_[i].near_lossless
    /\ GetAnimationSize(webp_data) < byte_budget_

\* C9: in a trial assembly of LossyEncodeSlopeOptim every frame that is no
\* longer in the active set is encoded at its final_quality.
C9_FrozenFramesAtFinalQuality ==
    (pc = "slope_loop" /\ trial # EmptyData)
        => \A i \in FramesOf(frames_) :
              ~InList(optim_list, i)
                  => trial.enc[i].quality = frames_[i].final_quality

\* a <= b on floats
SlopeLessEq(a, b) == ~IsNaN(a) /\ ~IsNaN(b) /\ ~SlopeLess(b, a)

\* One iteration of the loop of LossyEncodeSlopeOptim: the new active set is
\* within the old one, keeps the frames still at -1 and drops the frames
\* that have a final_quality and a slope at or under limit_slope; a frame
\* outside the new active set keeps its final_quality.
ActiveSetShrinks ==
    (pc = "slope_loop" /\ min_quality <= max_quality /\ optim_list # <<>>)
        => /\ Range(new_optim_list') \subseteq Range(optim_list)
           /\ Range(optim_list') \subseteq Range(optim_list)
           /\ \A i \in Range(optim_list) :
                 /\ frames_[i].final_quality = -1 => i \in Range(new_optim_list')
                 /\ (/\ frames_[i].final_quality # -1
                     /\ SlopeLessEq(ComputeSlope(frames_[i], min_quality, max_quality),
                                    limit_slope))
                        => i \notin Range(new_optim_list')
           /\ \A i \in FramesOf(frames_) :
                 i \notin Range(new_optim_list')
                     => frames_'[i].final_quality = frames_[i].final_quality

\* C10: in LossyEncodeSlopeOptim each iteration's active set is a subset of
\* the previous one: a frame with final_quality set and slope <= limit_slope
\* is removed, never comes back and keeps its final_quality for the rest of
\* the pass; a frame whose final_quality is -1 is never removed.
C10_ActiveSetShrinks == [][ActiveSetShrinks]_vars

\* C10 witness: the loop goes on with some frames dropped from the active set
\* and some still in it.
C10_Witness ==
    /\ pc = "slope_loop"
    /\ optim_list # <<>>
    /\ Len(optim_list) < Len(frames_)
    /\ min_quality <= max_quality

--------------------------------------------------------------------------
(* Properties of AnimData2PSNR and CompareThumbnail *)

\* AnimData2PSNR has just returned kOk, and the call that did.
PSNRReturnedOk == upc = "diff" \/ (upc = "decode" /\ call = 2)

ReturnedCall == IF upc = "diff" THEN 2 ELSE 1

\* The decoded frame at index (from 0) is the one original_frame belongs to:
\* the last decoded frame whose timestamp is not after original_frame's.
Matched(original_frame, new_frames, index) ==
    /\ index < Len(new_frames)
    /\ new_frames[index + 1].timestamp <= original_frame.timestamp
    /\ index + 1 < Len(new_frames)
          => new_frames[index + 2].timestamp > original_frame.timestamp

\* C7: AnimData2PSNR returns kOk only if every original frame was matched to
\* a decoded frame by timestamp and measured against it.
C7_OkOnlyIfEveryFrameMatched ==
    PSNRReturnedOk
        => /\ Len(compared) = Len(original_frames)
           /\ \A k \in 1..Len(original_frames) :
                 Matched(original_frames[k],
                         AnimData2Frames(buffers[ReturnedCall]).frames, compared[k])

\* C8: CompareThumbnail on a non-empty original sequence and twice the same
\* decodable buffer gives psnr_diff 0 for every frame and 0 for the largest
\* increase, the largest decrease, the mean and the median.
C8_SameBufferZeroDiff ==
    (/\ upc = "returned"
     /\ ustatus = "kOk"
     /\ original_frames # <<>>
     /\ buffers[1] = buffers[2])
        => /\ diff.psnr_diff = [i \in 1..Len(original_frames) |-> 0]
           /\ diff.max_psnr_increase = 0
           /\ diff.max_psnr_decrease = 0
           /\ diff.mean_psnr_diff.n = 0
           /\ diff.median_psnr_diff = 0

--------------------------------------------------------------------------
(* Properties of FindMedianSlope *)

\* FindMedianSlope has run.
SlopesRecorded == pc # "start" /\ Len(slopes) = Len(frames_)

\* PSNR(100) - PSNR(q) <= 1.0 for the picture of frame fr
WithinOneDb(fr, q) ==
    LossyPsnr(fr.pic, MaxQuality) - LossyPsnr(fr.pic, q) <= OneDb

\* The smallest quality of 0..100 within 1 dB of quality 100.
SmallestWithinOneDb(fr) ==
    CHOOSE q \in 0..MaxQuality :
        WithinOneDb(fr, q) /\ \A r \in 0..MaxQuality : WithinOneDb(fr, r) => q <= r

\* (PSNR(100) - PSNR(q)) / (size(100) - size(q))
QuotientAt(fr, q) ==
    MkSlope(LossyPsnr(fr.pic, MaxQuality) - LossyPsnr(fr.pic, q),
            LossySize(fr.pic, MaxQuality) - LossySize(fr.pic, q))

\* The same quotient: the same value, or the same kind of x / 0.
SameSlope(a, b) ==
    IF a.d = 0 \/ b.d = 0
    THEN a.d = b.d /\ Rank(a) = Rank(b) /\ IsNaN(a) = IsNaN(b)
    ELSE a.n * b.d = b.n * a.d

\* C11: the slope FindMedianSlope records for a frame is the quotient
\* (PSNR(100) - PSNR(q)) / (size(100) - size(q)) at the smallest quality q of
\* 0..100 with PSNR(100) - PSNR(q) <= 1.0.
C11_SlopeAtSmallestQualityWithinOneDb ==
    SlopesRecorded
        => \A i \in FramesOf(frames_) :
              SameSlope(slopes[i], QuotientAt(frames_[i], SmallestWithinOneDb(frames_[i])))

\* C11 witness: a slope was recorded for a frame whose smallest quality
\* within 1 dB lies strictly between 0 and 100, with sizes that differ.
C11_Witness ==
    /\ SlopesRecorded
    /\ \E i \in FramesOf(frames_) :
          /\ SmallestWithinOneDb(frames_[i]) \in 1..(MaxQuality - 1)
          /\ slopes[i].d # 0
          /\ slopes[i].n # 0

\* C19: every slope FindMedianSlope records, and so limit_slope, is a quotient
\* by a size difference that is not zero.
C19_NoZeroSizeDifference ==
    SlopesRecorded
        => /\ \A i \in FramesOf(frames_) : slopes[i].d # 0
           /\ limit_slope.d # 0

--------------------------------------------------------------------------
(* Properties of the LossyEncodeNoSlopeOptim scan *)

\* The for loop of a scan is running: the scan started with
\* anim_size <= byte_budget_.
ScanRunning == pc = "scan_frame"

\* anim_size after the acceptance a
AnimSizeAfter(a) == a.anim_size - a.encoded_size + a.new_size

\* The candidate was better than what the frame held and its size increase
\* was within the frame's share of the remaining budget.
AcceptanceJustified(a) ==
    /\ \/ a.new_psnr > a.final_psnr
       \/ (a.new_psnr = a.final_psnr /\ a.new_size <= a.encoded_size)
    /\ (a.new_size - a.encoded_size) * a.num_remaining_frames
           <= byte_budget_ - a.anim_size

\* What the frame with timestamp ts held when the scan started.
AtScanStart(ts) ==
    CHOOSE fr \in Range(scan_start[1]) : fr.timestamp_ms = ts

\* The acceptance number k was tested against what its frame held then: the
\* values of the frame's previous acceptance in this scan, or else those the
\* scan started with.
AgainstCurrent(k) ==
    LET a == accepted[k]
        earlier == {j \in 1..(k - 1) : accepted[j].ts = a.ts}
    IN  IF earlier = {}
        THEN /\ a.encoded_size = AtScanStart(a.ts).encoded_size
             /\ a.final_psnr = AtScanStart(a.ts).final_psnr
        ELSE LET j == CHOOSE x \in earlier : \A y \in earlier : y <= x
             IN  /\ a.encoded_size = accepted[j].new_size
                 /\ a.final_psnr = accepted[j].new_psnr

\* The acceptance number k read the anim_size the acceptances before it left.
AgainstRunningSize(k) ==
    accepted[k].anim_size =
        IF k = 1 THEN GetAnimationSize(scan_start[2]) ELSE AnimSizeAfter(accepted[k - 1])

\* C12: in a scan that starts within the budget, every accepted candidate
\* improves on what its frame currently holds and costs at most
\* (byte_budget - anim_size) / num_remaining_frames more, every acceptance
\* is carried into anim_size for the next candidate, and anim_size never
\* exceeds byte_budget.
C12_AcceptedWithinShareOfBudget ==
    ScanRunning
        => /\ \A k \in 1..Len(accepted) :
                 /\ AcceptanceJustified(accepted[k])
                 /\ AgainstCurrent(k)
                 /\ AgainstRunningSize(k)
                 /\ accepted[k].anim_size <= byte_budget_
                 /\ AnimSizeAfter(accepted[k]) <= byte_budget_
           /\ anim_size = IF accepted = <<>> THEN GetAnimationSize(scan_start[2])
                          ELSE AnimSizeAfter(accepted[Len(accepted)])
           /\ anim_size <= byte_budget_

\* C12 witness: a scan accepted candidates that cost bytes for two
\* different frames, the second one tested against the anim_size the first
\* one left.
C12_Witness ==
    /\ ScanRunning
    /\ \E j, k \in 1..Len(accepted) :
          /\ j < k
          /\ accepted[j].ts # accepted[k].ts
          /\ accepted[j].new_size > accepted[j].encoded_size
          /\ accepted[k].new_size > accepted[k].encoded_size
          /\ accepted[k].anim_size > GetAnimationSize(scan_start[2])

--------------------------------------------------------------------------
(* Properties of the refinement driver of GenerateAnimationSlopeOptim *)

\* GenerateAnimationSlopeOptim has returned after entering its refinement
\* loop.
RefinementReturned == pc = "done" /\ calls # <<>>

\* The number of LossyEncodeNoSlopeOptim calls among the calls made.
NumScans == Cardinality({k \in 1..Len(calls) : calls[k].pass = "LossyEncodeNoSlopeOptim"})

\* The scan that was call number k left the buffer at the size it found: the
\* next pass was called with a buffer of the same size.
LeftSizeUnchanged(k) == calls[k + 1].size = calls[k].size

--------------------------------------------------------------------------
(* Properties of ExtraLossyEncode *)

\* A round of ExtraLossyEncode is about to run.
RoundStarts == pc = "extra_loop" /\ encoding_order # <<>>

\* The frames still in encoding_order.
RemainingFrames == {encoding_order[k].second : k \in 1..Len(encoding_order)}

\* The smallest final_quality + 1 over the remaining frames, capped at 100.
WindowMin ==
    LET lowest == CHOOSE i \in RemainingFrames :
                     \A j \in RemainingFrames :
                        frames_[i].final_quality <= frames_[j].final_quality
    IN  IF frames_[lowest].final_quality + 1 < MaxQuality
        THEN frames_[lowest].final_quality + 1 ELSE MaxQuality

WindowMax == IF WindowMin + 30 < MaxQuality THEN WindowMin + 30 ELSE MaxQuality

\* The size of the assembly with every remaining frame at
\* max(final_quality, q), the other frames as they are.
AssemblySizeAt(q) ==
    SumSeq([i \in 1..Len(frames_) |->
               IF i \in RemainingFrames
               THEN FrameBytes([frames_[i] EXCEPT
                                   !.quality = IF frames_[i].final_quality > q
                                               THEN frames_[i].final_quality ELSE q])
               ELSE FrameBytes(frames_[i])])

FittingQualities == {q \in WindowMin..WindowMax : AssemblySizeAt(q) <= byte_budget_}

\* One round: the largest fitting quality of the window is committed to
\* exactly the remaining frames below it; with no fitting quality no
\* final_quality changes and the pass stops.
RoundCommitsLargestFitting ==
    RoundStarts =>
        IF FittingQualities = {}
        THEN /\ \A i \in FramesOf(frames_) :
                   frames_'[i].final_quality = frames_[i].final_quality
             /\ pc' = "extra_end"
        ELSE LET q == CHOOSE x \in FittingQualities : \A y \in FittingQualities : y <= x
             IN  /\ \A i \in FramesOf(frames_) :
                       frames_'[i].final_quality =
                           IF i \in RemainingFrames /\ frames_[i].final_quality < q
                           THEN q ELSE frames_[i].final_quality
                 /\ webp_data'.size = AssemblySizeAt(q)

\* C14: each round of ExtraLossyEncode commits the largest quality q of
\* [min_quality, min(min_quality + 30, 100)] whose assembly, with every
\* remaining frame at max(final_quality, q), fits byte_budget; q becomes the
\* final_quality of exactly the remaining frames that were below it, and if
\* no quality of the window fits no final_quality changes.
C14_RoundCommitsLargestFittingQuality == [][RoundCommitsLargestFitting]_vars

\* C14 witness: a round committed a quality below the top of its window (its
\* last trial was over budget), raising one frame and leaving another
\* remaining frame, already at or above it, as it was.
C14_Witness ==
    /\ pc = "extra_loop"
    /\ rounds >= 1
    /\ trial.size > byte_budget_
    /\ \E i, j \in FramesOf(frames_) :
          /\ ~frames_[i].near_lossless /\ ~frames_[j].near_lossless
          /\ frames_[i].final_quality > extra_start[i].final_quality
          /\ frames_[j].final_quality = extra_start[j].final_quality

\* The non-near-lossless frames ExtraLossyEncode started with.
NonNearLossless == {i \in FramesOf(extra_start) : ~extra_start[i].near_lossless}

\* (PSNR(100) - PSNR(q)) * ds <= dp * (size(100) - size(q)), with q the
\* starting final_quality of frame i: its slope up to 100 is at most dp / ds.
\* A frame of the same size at both ends has slope 0.
StartSlope(i) ==
    LET fr == extra_start[i]
        ds == LossySize(fr.pic, MaxQuality) - LossySize(fr.pic, fr.final_quality)
        dp == LossyPsnr(fr.pic, MaxQuality) - LossyPsnr(fr.pic, fr.final_quality)
    IN  IF ds = 0 THEN [n |-> 0, d |-> 1] ELSE [n |-> dp, d |-> ds]

\* The order holds frames by ascending slope from their starting
\* final_quality to 100 (the size differences are positive).
AscendingStartSlopes ==
    \A k, l \in 1..Len(encoding_order) :
        k < l => LET a == StartSlope(encoding_order[k].second)
                     b == StartSlope(encoding_order[l].second)
                 IN  a.n * b.d <= b.n * a.d

\* The rounds done and the frames left add up to the frames the pass
\* started with.
RoundsAccounted ==
    /\ RemainingFrames \subseteq NonNearLossless
    /\ rounds + Len(encoding_order) = Cardinality(NonNearLossless)
    /\ Cardinality(RemainingFrames) = Len(encoding_order)

\* One step of the loop of ExtraLossyEncode: a round that finds a fitting
\* quality removes the first frame of the order and nothing else, a round
\* that finds none leaves the loop, and so does an empty order.
RoundRemovesOneOrStops ==
    pc = "extra_loop" =>
        /\ AscendingStartSlopes
        /\ RoundsAccounted
        /\ IF encoding_order # <<>> /\ FittingQualities # {}
           THEN /\ pc' = "extra_loop"
                /\ rounds' = rounds + 1
                /\ encoding_order' = [k \in 1..(Len(encoding_order) - 1) |->
                                         encoding_order[k + 1]]
           ELSE /\ pc' = "extra_end"
                /\ rounds' = rounds

\* C15: ExtraLossyEncode terminates.  The frames are ordered once by
\* ascending slope from their starting final_quality to 100; every round that
\* finds a fitting quality removes exactly the first frame of the order, the
\* first round that finds none ends the pass, and the pass runs at most as
\* many rounds as there are non-near-lossless frames.
C15_OneFrameRemovedPerRound == [][RoundRemovesOneOrStops]_vars

\* C15 witness: the pass ended by a round in which nothing fitted, after a
\* round that removed one of two frames of different slopes.
C15_Witness ==
    /\ pc = "extra_end"
    /\ rounds = 1
    /\ Len(encoding_order) = 1
    /\ Cardinality(NonNearLossless) = 2
    /\ \E i, j \in NonNearLossless :
          StartSlope(i).n * StartSlope(j).d < StartSlope(j).n * StartSlope(i).d

--------------------------------------------------------------------------
(* Properties of the frame matching of AnimData2PSNR *)

\* The frames decoded for the running AnimData2PSNR call.
NewFrames == AnimData2Frames(buffers[call]).frames

\* The loop of AnimData2PSNR has started on a decoded buffer.
MatchingRuns ==
    /\ call \in {1, 2}
    /\ upc \in {"loop", "loop_end", "crashed"}
    /\ AnimData2Frames(buffers[call]).status = "kOk"

\* The decoded sequence is the original one with runs of consecutive frames
\* merged: every decoded frame carries the timestamp of the first original
\* frame of its run, and the first run starts at the first original frame.
MergedRuns(original, decoded) ==
    /\ original # <<>>
    /\ decoded # <<>>
    /\ decoded[1].timestamp = original[1].timestamp
    /\ \A k \in 1..Len(decoded) :
          \E i \in 1..Len(original) : original[i].timestamp = decoded[k].timestamp

\* The decoded frame of the run the original frame number i belongs to: the
\* last decoded frame that does not start after it (counted from 0).
RunOf(original, decoded, i) ==
    LET started == {k \in 1..Len(decoded) :
                       decoded[k].timestamp <= original[i].timestamp}
    IN  (CHOOSE k \in started : \A l \in started : l <= k) - 1

\* The decoded index before the original frame number i was handled.
IndexBefore(i) == IF i = 1 THEN 0 ELSE compared[i - 1]

\* The next decoded frame exists and carries the timestamp of the original
\* frame number i.
NextStartsAt(i) ==
    /\ IndexBefore(i) + 2 <= Len(NewFrames)
    /\ NewFrames[IndexBefore(i) + 2].timestamp = original_frames[i].timestamp

\* C16: when the decoded frames are the original sequence with runs merged,
\* every original frame is compared against the decoded frame of its own
\* run, and the decoded index advances by one exactly when the next decoded
\* frame's timestamp equals the current original frame's timestamp.
C16_ComparedWithOwnRun ==
    (MatchingRuns /\ MergedRuns(original_frames, NewFrames))
        => \A i \in 1..Len(compared) :
              /\ compared[i] = RunOf(original_frames, NewFrames, i)
              /\ compared[i] = IF NextStartsAt(i) THEN IndexBefore(i) + 1
                               ELSE IndexBefore(i)

\* C16 witness: of three original frames decoded as two, two were merged
\* into one decoded frame and both compared with it, and the index advanced
\* for the frame that starts the other run.
C16_Witness ==
    /\ MatchingRuns
    /\ MergedRuns(original_frames, NewFrames)
    /\ Len(compared) = Len(original_frames)
    /\ Len(NewFrames) < Len(original_frames)
    /\ \E i \in 2..Len(compared) : compared[i] = compared[i - 1]
    /\ \E i \in 2..Len(compared) : compared[i] = compared[i - 1] + 1

--------------------------------------------------------------------------
(* The buffer ExtraLossyEncode returns *)

\* ExtraLossyEncode has returned after committing a buffer in some round.
ExtraCommitted == ExtraReturned /\ rounds >= 1

\* The buffer was assembled with frame i encoded at its final_quality (a
\* near-lossless frame in near-lossless).
EncodedAtFinal(i) ==
    /\ webp_data.enc[i].lossless = frames_[i].near_lossless
    /\ webp_data.enc[i].quality = frames_[i].final_quality

\* C17: when ExtraLossyEncode returns, the buffer it last committed was
\* assembled with every frame encoded at the final_quality the frame holds,
\* the frames removed from the order in earlier rounds included.
C17_BufferEncodedAtFinalQualities ==
    ExtraCommitted => \A i \in FramesOf(frames_) : EncodedAtFinal(i)

\* C17 witness: ExtraLossyEncode returned after two rounds that each
\* committed a buffer, the second one after a frame had been removed from
\* the order, and the trial of the round that ended the pass was over budget.
C17_Witness ==
    /\ ExtraCommitted
    /\ rounds >= 2
    /\ \E i \in FramesOf(frames_) :
          /\ ~frames_[i].near_lossless
          /\ frames_[i].final_quality > extra_start[i].final_quality

--------------------------------------------------------------------------
(* The qualities of the statistics lookups *)

\* C18: every statistics lookup of the passes is made at a quality of
\* 0..100.  A lookup reads the frame's config.quality, which the passes set
\* just before it: no frame's config.quality is ever outside 0..100, the
\* unset final_quality -1 of a pass that found no fitting assembly included.
C18_LookupQualityInRange ==
    \A i \in FramesOf(frames_) : ValidQuality(frames_[i].quality)

--------------------------------------------------------------------------
(* A scan whose re-assembly is rejected *)

\* A scan ran its loop, its re-assembly was larger than byte_budget_ and the
\* previous buffer was kept.
ScanKeptPrevious ==
    /\ pc = "scan_ret"
    /\ anim_size <= byte_budget_
    /\ trial.size > byte_budget_
    /\ webp_data = scan_start[2]

\* C20: when the re-assembly at the end of a scan is larger than byte_budget
\* and the previous buffer is kept, every frame's final_quality, encoded_size
\* and final_psnr are what they were before the scan.
C20_RejectedScanLeavesFramesAsBefore ==
    ScanKeptPrevious
        => \A i \in FramesOf(frames_) :
              /\ frames_[i].final_quality = scan_start[1][i].final_quality
              /\ frames_[i].encoded_size = scan_start[1][i].encoded_size
              /\ frames_[i].final_psnr = scan_start[1][i].final_psnr

--------------------------------------------------------------------------
(* The reads of AnimData2PSNR *)

\* Every read of new_frames[new_frame_index] made so far by the running call
\* was at an index of the decoded sequence.
DereferencedInRange ==
    MatchingRuns => \A k \in 1..Len(compared) : compared[k] < Len(NewFrames)

\* The summary statistics of a call that returned kOk were read from a PSNR
\* list that is not empty.
StatisticsFromNonEmptyList ==
    PSNRReturnedOk => stats[ReturnedCall].psnr # <<>>

\* C21: in AnimData2PSNR the decoded index is a valid index of the decoded
\* sequence whenever new_frames[new_frame_index] is read, for every non-empty
\* original sequence and every decoded sequence, one of zero frames included,
\* and the summary statistics are only read from a non-empty PSNR list.
C21_DecodedIndexValid ==
    original_frames # <<>> => (DereferencedInRange /\ StatisticsFromNonEmptyList)

==========================================================================
